---- MODULE Spec2Model ----
(***************************************************************************)
(* everything-sdk-rs: the ownership/concurrency gate of src/src/ergo.rs     *)
(* (global() mutex -> EverythingSearcher -> EverythingResults), the search  *)
(* state of the Everything SDK as documented in src/src/raw.rs, and the     *)
(* asynchronous query hand-off (QueryFuture, its worker thread, wndproc).   *)
(***************************************************************************)
EXTENDS Integers, Sequences, FiniteSets, TLC

\* ---------------------------------------------------------------- bounds
NumCallers == 2
MaxSessions == 2
MaxSetterCalls == 2
MaxWorkers == 2
MaxQueries == 2
IndexSize == 6
MaxLenArg == 5

Callers == 1..NumCallers
Workers == 1..MaxWorkers
None == 0

\* ------------------------------------------------------ program constants
\* a u32 is kept as its two 16-bit halves <<high, low>>
U16_MAX == 65535
u32(n) == <<n \div (U16_MAX + 1), n % (U16_MAX + 1)>>
U32_MAX == <<U16_MAX, U16_MAX>>
CUSTOM_REPLY_ID == 9527
EVERYTHING_OK == 0
EVERYTHING_ERROR_IPC == 2
EVERYTHING_SORT_NAME_ASCENDING == 1
EVERYTHING_SORT_DATE_RECENTLY_CHANGED_ASCENDING == 21
EVERYTHING_REQUEST_FILE_NAME == 1
EVERYTHING_REQUEST_PATH == 2
EVERYTHING_REQUEST_FULL_PATH_AND_FILE_NAME == 4
EVERYTHING_REQUEST_EXTENSION == 8
EVERYTHING_REQUEST_SIZE == 16
EVERYTHING_REQUEST_DATE_CREATED == 32
EVERYTHING_REQUEST_DATE_MODIFIED == 64
EVERYTHING_REQUEST_DATE_ACCESSED == 128
EVERYTHING_REQUEST_ATTRIBUTES == 256
EVERYTHING_REQUEST_FILE_LIST_FILE_NAME == 512
EVERYTHING_REQUEST_RUN_COUNT == 1024
EVERYTHING_REQUEST_DATE_RUN == 2048
EVERYTHING_REQUEST_DATE_RECENTLY_CHANGED == 4096
EVERYTHING_REQUEST_HIGHLIGHTED_FILE_NAME == 8192
EVERYTHING_REQUEST_HIGHLIGHTED_PATH == 16384
EVERYTHING_REQUEST_HIGHLIGHTED_FULL_PATH_AND_FILE_NAME == 32768
EVERYTHING_SORT_DATE_RUN_DESCENDING == 26
EVERYTHING_ERROR_INVALIDPARAMETER == 9

\* Win32 BOOL
TRUE_ == 1
FALSE_ == 0

\* impl Default for SortType / RequestFlags
SortType_default == EVERYTHING_SORT_NAME_ASCENDING
RequestFlags_default == EVERYTHING_REQUEST_FILE_NAME + EVERYTHING_REQUEST_PATH

\* the values the callers of the setters pass in the examples
SearchTexts == {"", "jpg"}
MaxValues == {u32(5), U32_MAX}
OffsetValues == {u32(0), u32(1)}
SortValues == {SortType_default, EVERYTHING_SORT_DATE_RECENTLY_CHANGED_ASCENDING}
FlagValues == {RequestFlags_default,
               RequestFlags_default + EVERYTHING_REQUEST_SIZE + EVERYTHING_REQUEST_RUN_COUNT}

VARIABLES
    mode,        \* "sync" | "async": the crate feature the program is built with
    ipc,         \* TRUE iff the Everything process is reachable
    lockHolder,  \* the caller holding the guard of global(), or None
    pc,          \* per caller: where it stands in the handle nesting
    eng,         \* the SDK's process-wide search state
    inflight,    \* queries posted to the engine and not yet answered
    qok,         \* per caller: what Everything_Query returned for its last query
    touched,     \* parameters set through the current (or last) searcher
    nset,        \* setter calls made through the current searcher
    sessions,    \* searchers created so far
    spawned,     \* worker threads spawned so far
    fut,         \* per caller: the worker of the QueryFuture it awaits, or None
    wpc,         \* per worker thread: its position in the closure
    completed,   \* per worker: SharedState.completed
    waker,       \* per worker: SharedState.waker (the task to wake), or None
    gotReply,    \* per worker: wndproc saw a query reply with the matching id
    readyFrom,   \* per caller: the worker whose future gave it its results, or None
    nquery,      \* queries started through the current searcher
    dropDirty,   \* the last searcher was dropped with a listed parameter off its default
    woke,        \* per worker: its completion step woke a stored waker
    ret,         \* the latest call of an accessor and what it returned
    acq,         \* per caller: how its latest attempt to take the mutex went, kept
                 \* until the guard is put to use or dropped
    stale,       \* the result list was replaced under a live EverythingResults or
                 \* EverythingItem: its validity window is over
    it           \* the Iter<'a> made from the live results: Some(iterator) or <<>>

buildVars == <<mode, ipc>>
sessionVars == <<touched, nset, nquery, sessions, dropDirty>>
workerVars == <<spawned, wpc, completed, waker, gotReply, woke>>
vars == <<mode, ipc, lockHolder, pc, eng, inflight, qok, touched, nset, sessions,
          spawned, fut, wpc, completed, waker, gotReply, readyFrom, nquery, dropDirty,
          woke, ret, acq, stale, it>>

\* ------------------------------------------------------------ raw.rs
\* convert the Win32 BOOL to bool; any other value is unreachable!()
lower_bool(b) == CASE b = TRUE_ -> TRUE
                   [] b = FALSE_ -> FALSE

raise_bool(enabled) == IF enabled THEN TRUE_ ELSE FALSE_

\* the default state listed in the documentation of Everything_Reset
DefaultReplyWindow == 0
DefaultReplyID == 0

Everything_SetSearch(e, text) == [e EXCEPT !.search = text]
Everything_SetMatchPath(e, enabled) == [e EXCEPT !.matchPath = raise_bool(enabled)]
Everything_SetMatchCase(e, enabled) == [e EXCEPT !.matchCase = raise_bool(enabled)]
Everything_SetMatchWholeWord(e, enabled) == [e EXCEPT !.matchWholeWord = raise_bool(enabled)]
Everything_SetRegex(e, enabled) == [e EXCEPT !.regex = raise_bool(enabled)]
Everything_SetMax(e, n) == [e EXCEPT !.max = n]
Everything_SetOffset(e, n) == [e EXCEPT !.offset = n]
Everything_SetSort(e, s) == [e EXCEPT !.sort = s]
Everything_SetRequestFlags(e, f) == [e EXCEPT !.requestFlags = f]
Everything_SetReplyWindow(e, h) == [e EXCEPT !.replyWindow = h]
Everything_SetReplyID(e, id) == [e EXCEPT !.replyId = id]

Everything_GetSearch(e) == e.search
Everything_GetMatchPath(e) == lower_bool(e.matchPath)
Everything_GetMatchCase(e) == lower_bool(e.matchCase)
Everything_GetMatchWholeWord(e) == lower_bool(e.matchWholeWord)
Everything_GetRegex(e) == lower_bool(e.regex)
Everything_GetMax(e) == e.max
Everything_GetOffset(e) == e.offset
Everything_GetSort(e) == e.sort
Everything_GetRequestFlags(e) == e.requestFlags

\* u32 comparison on the halves
u32_lt(a, b) == a[1] < b[1] \/ (a[1] = b[1] /\ a[2] < b[2])
u32_le(a, b) == a = b \/ u32_lt(a, b)

\* bitflags: RequestFlags::all().bits(), from_bits(), contains()
RECURSIVE BitAnd(_, _)
BitAnd(a, b) ==
    IF a = 0 \/ b = 0 THEN 0
    ELSE (a % 2) * (b % 2) + 2 * BitAnd(a \div 2, b \div 2)

RequestFlags_all == 2 * EVERYTHING_REQUEST_HIGHLIGHTED_FULL_PATH_AND_FILE_NAME - 1
RequestFlags_from_bits(bits) == BitAnd(bits, RequestFlags_all) = bits
RequestFlags_contains(self, other) == BitAnd(self, other) = other

\* every value of RequestFlags (from_bits accepts it)
AllRequestFlags == {f \in 0..RequestFlags_all : RequestFlags_from_bits(f)}

\* enum SortType and enum LastError: the values try_from accepts
SortTypes == EVERYTHING_SORT_NAME_ASCENDING..EVERYTHING_SORT_DATE_RUN_DESCENDING
LastErrors == EVERYTHING_OK..EVERYTHING_ERROR_INVALIDPARAMETER

\* the files and folders Everything has indexed: entry k is a folder when k is
\* a multiple of 3, its full path is C:\ followed by k letters, and the search
\* text "jpg" matches every fourth entry
Index ==
    [k \in 1..IndexSize |->
        [folder |-> (k % 3 = 0),
         size |-> IF k % 3 = 0 THEN 0 ELSE 1000 * k,
         fullPath |-> <<67, 58, 92>> \o [i \in 1..k |-> 96 + i],
         jpg |-> (k % 4 = 1)]]

\* the entries of the index that match the search text, in index order
RECURSIVE MatchesFrom(_, _)
MatchesFrom(text, k) ==
    IF k > IndexSize THEN <<>>
    ELSE (IF text = "" \/ Index[k].jpg THEN <<k>> ELSE <<>>) \o MatchesFrom(text, k + 1)

\* the matches of each search text the callers use, found once
MatchTable == [text \in SearchTexts |-> MatchesFrom(text, 1)]

Matches(text) == MatchTable[text]

\* the visible window of the matches: it starts at the offset and holds at
\* most max results (Everything_SetOffset, Everything_SetMax)
Visible(m, offset, max) ==
    IF ~u32_lt(offset, u32(Len(m))) THEN <<>>
    ELSE LET rest == Len(m) - offset[2]
             n == IF u32_lt(max, u32(rest)) THEN max[2] ELSE rest
         IN  SubSeq(m, offset[2] + 1, offset[2] + n)

\* the result list no query has filled: no results, and the sort and flags
\* that Everything_GetResultListSort / -RequestFlags then report
NoList(flags, sort) ==
    [flags |-> flags, sort |-> sort, tot |-> 0, totFolders |-> 0, items |-> <<>>]

\* how many of the index entries in the sequence m are folders
Folders(m) == Cardinality({i \in 1..Len(m) : Index[m[i]].folder})

\* the result list of a query with the search state e: the engine fulfils
\* the requested sort and flags (query version 2), or falls back to the
\* version 1 list (name ascending, file name and path) when fulfilled is FALSE
ResultList(e, fulfilled) ==
    LET m == Matches(e.search) IN
    [flags |-> IF fulfilled THEN e.requestFlags ELSE RequestFlags_default,
     sort |-> IF fulfilled THEN e.sort ELSE SortType_default,
     tot |-> Len(m),
     totFolders |-> Folders(m),
     items |-> Visible(m, e.offset, e.max)]

\* the result lists the engine may answer a query of state e with
ResultLists(e) == {ResultList(e, fulfilled) : fulfilled \in BOOLEAN}

\* the result list is read back (the values the bindings convert and check)
Everything_GetResultListRequestFlags(e) == e.list.flags
Everything_GetResultListSort(e) == e.list.sort
Everything_GetNumResults(e) == u32(Len(e.list.items))
Everything_GetTotResults(e) == u32(e.list.tot)
Everything_GetNumFolderResults(e) == u32(Folders(e.list.items))
Everything_GetNumFileResults(e) == u32(Len(e.list.items) - Folders(e.list.items))
Everything_GetTotFolderResults(e) == u32(e.list.totFolders)
Everything_GetTotFileResults(e) == u32(e.list.tot - e.list.totFolders)

\* Option<T>: None is <<>>, Some(v) is <<v>>
Some(v) == <<v>>
unwrap_or(o, d) == IF o = <<>> THEN d ELSE o[1]

\* the index entry behind the visible result `index` (zero based)
Entry(e, index) == Index[e.list.items[index + 1]]

Everything_IsFolderResult(e, index) == lower_bool(raise_bool(Entry(e, index).folder))

\* a field of a visible result: the engine has it when the flag is among the
\* flags of the result list, else the call fails (None)
Everything_GetResultField(e, index, flag) ==
    IF index < Len(e.list.items) /\ RequestFlags_contains(e.list.flags, flag)
    THEN Some(e.list.items[index + 1])
    ELSE <<>>

\* Everything_GetResultSize: Some(size); a folder reads 0 when the attributes
\* were requested and -1 when they were not
Everything_GetResultSize(e, index) ==
    IF index < Len(e.list.items) /\ RequestFlags_contains(e.list.flags, EVERYTHING_REQUEST_SIZE)
    THEN IF Entry(e, index).folder
         THEN IF RequestFlags_contains(e.list.flags, EVERYTHING_REQUEST_ATTRIBUTES)
              THEN Some(0) ELSE Some(-1)
         ELSE Some(Entry(e, index).size)
    ELSE <<>>

\* the full path of a visible result is there with the full-path flag or with
\* the two default flags
HasFullPath(e, index) ==
    /\ index < Len(e.list.items)
    /\ \/ RequestFlags_contains(e.list.flags, EVERYTHING_REQUEST_FULL_PATH_AND_FILE_NAME)
       \/ RequestFlags_contains(e.list.flags, RequestFlags_default)

\* sdk_sys::Everything_GetResultFullPathNameW(index, lpString, nMaxCount): with
\* a null buffer the length needed (terminator excluded); else the string is
\* copied, truncated to the buffer and NUL terminated, and the number of wide
\* characters copied (terminator excluded) is returned; 0 on failure
FullPathCopied(e, index, nMaxCount) ==
    LET full == Entry(e, index).fullPath IN
    IF nMaxCount = 0 THEN <<>>
    ELSE IF Len(full) <= nMaxCount - 1 THEN full ELSE SubSeq(full, 1, nMaxCount - 1)

Everything_GetResultFullPathNameW(e, index, isNull, nMaxCount) ==
    IF ~HasFullPath(e, index) THEN 0
    ELSE IF isNull THEN Len(Entry(e, index).fullPath)
    ELSE Len(FullPathCopied(e, index, nMaxCount))

\* NonZeroU32::new
NonZeroU32_new(n) == IF n = 0 THEN <<>> ELSE Some(n)

Everything_GetResultFullPathNameSizeHint(e, index) ==
    LET n == Everything_GetResultFullPathNameW(e, index, TRUE, 0) IN
    IF n = 0 THEN <<>> ELSE NonZeroU32_new(n + 1)

Everything_GetResultFullPathName(e, index, buf_size) ==
    NonZeroU32_new(Everything_GetResultFullPathNameW(e, index, FALSE, buf_size))

\* mutant: a zero is handed on without a look at the last error
zero_is_ok(n, last_error) == [tag |-> "Some", val |-> n]

\* zero_or_ipc_error(n), last_error being what Everything_GetLastError()
\* returns right after the call that gave n: Some(n), None, or unreachable!()
zero_or_ipc_error(n, last_error) ==
    IF n = 0
    THEN CASE last_error = EVERYTHING_OK -> [tag |-> "Some", val |-> 0]
           [] last_error = EVERYTHING_ERROR_IPC -> [tag |-> "None", val |-> 0]
           [] OTHER -> [tag |-> "unreachable", val |-> 0]
    ELSE [tag |-> "Some", val |-> n]

\* Everything_Reset: the result list is freed and the search state goes back to
\* the default state its documentation lists (sort and request flags are not
\* in that list); the last error is cleared.
Everything_Reset(e) ==
    [e EXCEPT !.search = "",
              !.matchPath = FALSE_,
              !.matchCase = FALSE_,
              !.matchWholeWord = FALSE_,
              !.regex = FALSE_,
              !.max = U32_MAX,
              !.offset = u32(0),
              !.replyWindow = DefaultReplyWindow,
              !.replyId = DefaultReplyID,
              !.lastError = EVERYTHING_OK,
              !.hasResults = FALSE,
              !.list = NoList(RequestFlags_default, SortType_default)]

\* the state of the SDK when the library is loaded
EngineInit ==
    [search |-> "", matchPath |-> FALSE_, matchCase |-> FALSE_,
     matchWholeWord |-> FALSE_, regex |-> FALSE_, max |-> U32_MAX, offset |-> u32(0),
     sort |-> SortType_default, requestFlags |-> RequestFlags_default,
     replyWindow |-> DefaultReplyWindow, replyId |-> DefaultReplyID,
     lastError |-> EVERYTHING_OK, hasResults |-> FALSE,
     list |-> NoList(RequestFlags_default, SortType_default)]

\* ------------------------------------------------------------ ergo.rs
Params == {"search", "match_path", "match_case", "match_whole_word", "regex",
           "max", "offset", "sort", "request_flags"}

\* the getters of EverythingSearcher, by parameter
Getter(e, p) ==
    CASE p = "search" -> Everything_GetSearch(e)
      [] p = "match_path" -> Everything_GetMatchPath(e)
      [] p = "match_case" -> Everything_GetMatchCase(e)
      [] p = "match_whole_word" -> Everything_GetMatchWholeWord(e)
      [] p = "regex" -> Everything_GetRegex(e)
      [] p = "max" -> Everything_GetMax(e)
      [] p = "offset" -> Everything_GetOffset(e)
      [] p = "sort" -> Everything_GetSort(e)
      [] p = "request_flags" -> Everything_GetRequestFlags(e)

\* the default each setter documents
DocumentedDefault(p) ==
    CASE p = "search" -> ""
      [] p = "match_path" -> FALSE
      [] p = "match_case" -> FALSE
      [] p = "match_whole_word" -> FALSE
      [] p = "regex" -> FALSE
      [] p = "max" -> U32_MAX
      [] p = "offset" -> u32(0)
      [] p = "sort" -> SortType_default
      [] p = "request_flags" -> RequestFlags_default

\* the parameters the documentation of Everything_Reset lists
ResetParams == {"search", "match_path", "match_case", "match_whole_word", "regex",
                "max", "offset"}

\* the pc values at which a caller owns an EverythingSearcher
SearcherStates == {"searcher", "inquery", "created", "runnable", "pending", "results", "items"}

\* no accessor has been called on the handle at hand
NoCall ==
    [op |-> "none", index |-> 0, arg |-> <<>>, flag |-> 0, raw |-> 0, last_error |-> 0,
     tag |-> "none", val |-> 0, ffi |-> <<>>]

TypeOK ==
    /\ mode \in {"sync", "async"}
    /\ ipc \in BOOLEAN
    /\ lockHolder \in Callers \cup {None}
    /\ pc \in [Callers -> {"idle", "blocked", "guard"} \cup SearcherStates]
    /\ Len(inflight) <= MaxWorkers + 1
    /\ qok \in [Callers -> BOOLEAN]
    /\ touched \subseteq Params
    /\ nset \in 0..Cardinality(Params)
    /\ nquery \in 0..MaxQueries
    /\ sessions \in 0..MaxSessions
    /\ spawned \in 0..MaxWorkers
    /\ fut \in [Callers -> Workers \cup {None}]
    /\ wpc \in [Workers -> {"none", "spawned", "idset", "winset", "posted",
                            "notified", "destroyed", "done", "panicked", "nowindow"}]
    /\ completed \in [Workers -> BOOLEAN]
    /\ waker \in [Workers -> Callers \cup {None}]
    /\ gotReply \in [Workers -> BOOLEAN]
    /\ readyFrom \in [Callers -> Workers \cup {None}]
    /\ dropDirty \in BOOLEAN
    /\ woke \in [Workers -> BOOLEAN]
    /\ acq \in [Callers -> {"none", "err", "ok", "retried", "waited"}]
    /\ ret.tag \in {"none", "Ok", "Err", "panic"}
    /\ stale \in BOOLEAN
    /\ Len(it) <= 1
    /\ eng.list.tot \in 0..IndexSize
    /\ Len(eng.list.items) <= eng.list.tot

Init ==
    /\ mode \in {"sync", "async"}
    /\ ipc \in BOOLEAN
    /\ lockHolder = None
    /\ pc = [c \in Callers |-> "idle"]
    /\ eng = EngineInit
    /\ inflight = <<>>
    /\ qok = [c \in Callers |-> TRUE]
    /\ touched = {}
    /\ nset = 0
    /\ nquery = 0
    /\ sessions = 0
    /\ spawned = 0
    /\ fut = [c \in Callers |-> None]
    /\ wpc = [w \in Workers |-> "none"]
    /\ completed = [w \in Workers |-> FALSE]
    /\ waker = [w \in Workers |-> None]
    /\ gotReply = [w \in Workers |-> FALSE]
    /\ readyFrom = [c \in Callers |-> None]
    /\ dropDirty = FALSE
    /\ woke = [w \in Workers |-> FALSE]
    /\ acq = [c \in Callers |-> "none"]
    /\ ret = NoCall
    /\ stale = FALSE
    /\ it = <<>>

\* what try_lock records when it returns the guard: "retried" after a failed
\* attempt of the same caller, else "ok"
TryLockOk(c) == IF acq[c] = "err" THEN "retried" ELSE "ok"

\* mutant: try_lock hands out a guard although the mutex is held
global_try_lock_while_held(c) ==
    /\ pc[c] = "idle"
    /\ lockHolder' = c
    /\ pc' = [pc EXCEPT ![c] = "guard"]
    /\ acq' = [acq EXCEPT ![c] = TryLockOk(c)]
    /\ touched' = {}
    /\ UNCHANGED <<buildVars, it, stale, ret, eng, inflight, qok, nset, nquery, sessions, dropDirty,
                   workerVars, fut, readyFrom>>

\* mutant: try_lock waits for the mutex when it is held
global_try_lock_blocking(c) ==
    /\ pc[c] = "idle"
    /\ IF lockHolder = None
       THEN /\ lockHolder' = c
            /\ pc' = [pc EXCEPT ![c] = "guard"]
            /\ acq' = [acq EXCEPT ![c] = TryLockOk(c)]
            /\ touched' = {}
       ELSE /\ pc' = [pc EXCEPT ![c] = "blocked"]
            /\ acq' = [acq EXCEPT ![c] = "err"]
            /\ UNCHANGED <<lockHolder, touched>>
    /\ UNCHANGED <<buildVars, it, stale, ret, eng, inflight, qok, nset, nquery, sessions, dropDirty,
                   workerVars, fut, readyFrom>>

\* global().try_lock(): returns the guard when the mutex is free; when it is
\* held it returns the error (sync) / None (async) at once and the caller goes on
global_try_lock(c) ==
    /\ pc[c] = "idle"
    /\ IF lockHolder = None
       THEN /\ lockHolder' = c
            /\ pc' = [pc EXCEPT ![c] = "guard"]
            /\ acq' = [acq EXCEPT ![c] = TryLockOk(c)]
            /\ touched' = {}
       ELSE /\ acq' = [acq EXCEPT ![c] = "err"]
            /\ UNCHANGED <<lockHolder, pc, touched>>
    /\ UNCHANGED <<buildVars, it, stale, ret, eng, inflight, qok, nset, nquery, sessions, dropDirty,
                   workerVars, fut, readyFrom>>

\* global().lock(): the thread (sync) or task (async) starts waiting for the
\* mutex; "waited" when the mutex is held at the call
global_lock(c) ==
    /\ pc[c] = "idle"
    /\ pc' = [pc EXCEPT ![c] = "blocked"]
    /\ acq' = [acq EXCEPT ![c] = IF lockHolder /= None THEN "waited" ELSE "none"]
    /\ UNCHANGED <<buildVars, it, stale, ret, lockHolder, eng, inflight, qok, sessionVars, workerVars,
                   fut, readyFrom>>

\* mutant: a waiter of lock() is handed the mutex only if it began to wait
\* while the mutex was free
global_lock_acquired_unless_waited(c) ==
    /\ pc[c] = "blocked"
    /\ lockHolder = None
    /\ acq[c] /= "waited"
    /\ lockHolder' = c
    /\ pc' = [pc EXCEPT ![c] = "guard"]
    /\ touched' = {}
    /\ UNCHANGED <<buildVars, it, stale, ret, acq, eng, inflight, qok, nset, nquery, sessions, dropDirty,
                   workerVars, fut, readyFrom>>

\* a waiter of global().lock() is handed the free mutex
global_lock_acquired(c) ==
    /\ pc[c] = "blocked"
    /\ lockHolder = None
    /\ lockHolder' = c
    /\ pc' = [pc EXCEPT ![c] = "guard"]
    /\ touched' = {}
    /\ UNCHANGED <<buildVars, it, stale, ret, acq, eng, inflight, qok, nset, nquery, sessions, dropDirty,
                   workerVars, fut, readyFrom>>

\* the MutexGuard goes out of scope
drop_guard(c) ==
    /\ pc[c] = "guard"
    /\ lockHolder' = None
    /\ pc' = [pc EXCEPT ![c] = "idle"]
    /\ acq' = [acq EXCEPT ![c] = "none"]
    /\ UNCHANGED <<buildVars, it, stale, ret, eng, inflight, qok, sessionVars, workerVars, fut, readyFrom>>

\* EverythingGlobal::searcher(&'a mut self): needs the guard, borrows it mutably
searcher(c) ==
    /\ pc[c] = "guard"
    /\ sessions < MaxSessions
    /\ pc' = [pc EXCEPT ![c] = "searcher"]
    /\ sessions' = sessions + 1
    /\ touched' = {}
    /\ nset' = 0
    /\ nquery' = 0
    /\ acq' = [acq EXCEPT ![c] = "none"]
    /\ UNCHANGED <<buildVars, it, stale, ret, lockHolder, eng, inflight, qok, dropDirty, workerVars, fut,
                   readyFrom>>

\* mutant: the searcher is dropped without the reset
drop_searcher_without_reset(c) ==
    /\ pc[c] = "searcher"
    /\ pc' = [pc EXCEPT ![c] = "guard"]
    /\ dropDirty' = (\E p \in ResetParams : Getter(eng, p) /= DocumentedDefault(p))
    /\ UNCHANGED <<buildVars, it, stale, ret, acq, lockHolder, eng, inflight, qok, touched, nset, nquery, sessions,
                   workerVars, fut, readyFrom>>

\* mutant: dropping the searcher also gives the mutex back
drop_searcher_releasing_lock(c) ==
    /\ pc[c] = "searcher"
    /\ eng' = Everything_Reset(eng)
    /\ lockHolder' = None
    /\ pc' = [pc EXCEPT ![c] = "guard"]
    /\ dropDirty' = (\E p \in ResetParams : Getter(eng, p) /= DocumentedDefault(p))
    /\ UNCHANGED <<buildVars, it, stale, ret, acq, inflight, qok, touched, nset, nquery, sessions,
                   workerVars, fut, readyFrom>>

\* impl Drop for EverythingSearcher: raw::Everything_Reset()
drop_searcher(c) ==
    /\ pc[c] = "searcher"
    /\ eng' = Everything_Reset(eng)
    /\ pc' = [pc EXCEPT ![c] = "guard"]
    /\ dropDirty' = (\E p \in ResetParams : Getter(eng, p) /= DocumentedDefault(p))
    /\ UNCHANGED <<buildVars, it, stale, ret, acq, lockHolder, inflight, qok, touched, nset, nquery, sessions,
                   workerVars, fut, readyFrom>>

\* mutant: dropping the results frees them with Everything_Reset
drop_results_with_reset(c) ==
    /\ pc[c] = "results"
    /\ eng' = Everything_Reset(eng)
    /\ pc' = [pc EXCEPT ![c] = "searcher"]
    /\ readyFrom' = [readyFrom EXCEPT ![c] = None]
    /\ ret' = NoCall
    /\ stale' = FALSE
    /\ it' = <<>>
    /\ UNCHANGED <<buildVars, acq, lockHolder, inflight, qok, sessionVars, workerVars, fut>>

\* impl Drop for EverythingResults: only a debug! line
drop_results(c) ==
    /\ pc[c] = "results"
    /\ pc' = [pc EXCEPT ![c] = "searcher"]
    /\ readyFrom' = [readyFrom EXCEPT ![c] = None]
    /\ ret' = NoCall
    /\ stale' = FALSE
    /\ it' = <<>>
    /\ UNCHANGED <<buildVars, acq, lockHolder, eng, inflight, qok, sessionVars, workerVars, fut>>

\* what every setter of EverythingSearcher shares: &mut self, one more call
Setter(c, p, e) ==
    /\ pc[c] = "searcher"
    /\ nset < MaxSetterCalls
    /\ eng' = e
    /\ touched' = touched \cup {p}
    /\ nset' = nset + 1
    /\ UNCHANGED <<buildVars, it, stale, ret, acq, lockHolder, pc, inflight, qok, nquery, sessions, dropDirty,
                   workerVars, fut, readyFrom>>

set_search(c) == \E text \in SearchTexts : Setter(c, "search", Everything_SetSearch(eng, text))
set_match_path(c) == \E b \in BOOLEAN : Setter(c, "match_path", Everything_SetMatchPath(eng, b))
set_match_case(c) == \E b \in BOOLEAN : Setter(c, "match_case", Everything_SetMatchCase(eng, b))
set_match_whole_word(c) ==
    \E b \in BOOLEAN : Setter(c, "match_whole_word", Everything_SetMatchWholeWord(eng, b))
set_regex(c) == \E b \in BOOLEAN : Setter(c, "regex", Everything_SetRegex(eng, b))
set_max(c) == \E n \in MaxValues : Setter(c, "max", Everything_SetMax(eng, n))
set_offset(c) == \E n \in OffsetValues : Setter(c, "offset", Everything_SetOffset(eng, n))
set_sort(c) == \E s \in SortValues : Setter(c, "sort", Everything_SetSort(eng, s))
set_request_flags(c) ==
    \E f \in FlagValues : Setter(c, "request_flags", Everything_SetRequestFlags(eng, f))

\* ------------------------------------------------- queries and the engine
\* a query on its way: wait = TRUE for Everything_Query(true), whose caller `to`
\* is blocked in the call; wait = FALSE for a query posted by Everything_Query(false),
\* answered with a WM_COPYDATA message to window `to` carrying reply id `id`
Posted(wait, to, id) == [wait |-> wait, to |-> to, id |-> id]

\* Everything_Query: FALSE and the last error EVERYTHING_ERROR_IPC when the
\* Everything process is not reachable, else the query is sent
Everything_Query_fails == ~ipc

\* EverythingSearcher::query (sync build) and _query_and_sort_by_path (both
\* builds): raw::Everything_Query(true), its return value unused, then an
\* EverythingResults is built
QueryWait(c) ==
    /\ pc[c] = "searcher"
    /\ nquery < MaxQueries
    /\ nquery' = nquery + 1
    /\ IF Everything_Query_fails
       THEN /\ eng' = [eng EXCEPT !.lastError = EVERYTHING_ERROR_IPC, !.hasResults = FALSE,
                                  !.list = NoList(RequestFlags_default, SortType_default)]
            /\ qok' = [qok EXCEPT ![c] = FALSE]
            /\ pc' = [pc EXCEPT ![c] = "results"]
            /\ UNCHANGED inflight
       ELSE /\ inflight' = Append(inflight, Posted(TRUE, c, eng.replyId))
            /\ qok' = [qok EXCEPT ![c] = TRUE]
            /\ pc' = [pc EXCEPT ![c] = "inquery"]
            /\ UNCHANGED eng
    /\ stale' = FALSE
    /\ UNCHANGED <<buildVars, it, ret, acq, lockHolder, touched, nset, sessions, dropDirty, workerVars,
                   fut, readyFrom>>

query_sync(c) ==
    /\ mode = "sync"
    /\ QueryWait(c)

_query_and_sort_by_path(c) ==
    /\ mode = "async"
    /\ QueryWait(c)

\* the engine answers the oldest query that waits inside Everything_Query(true):
\* the call returns TRUE with the result list filled
EngineReplyWait ==
    /\ inflight /= <<>>
    /\ Head(inflight).wait
    /\ LET c == Head(inflight).to IN
        /\ pc[c] = "inquery"
        /\ pc' = [pc EXCEPT ![c] = "results"]
    /\ \E l \in ResultLists(eng) :
          eng' = [eng EXCEPT !.lastError = EVERYTHING_OK, !.hasResults = TRUE, !.list = l]
    /\ inflight' = Tail(inflight)
    /\ stale' = FALSE
    /\ UNCHANGED <<buildVars, it, ret, acq, lockHolder, qok, sessionVars, workerVars, fut, readyFrom>>

\* ------------------------------------------------- mod non_blocking
\* QueryFuture::new(): the shared state starts {completed: false, waker: None}
\* and the worker thread is spawned; the first poll follows in the same poll of
\* the task ("created")
QueryFuture_new(c) ==
    /\ mode = "async"
    /\ pc[c] = "searcher"
    /\ nquery < MaxQueries
    /\ spawned < MaxWorkers
    /\ LET w == spawned + 1 IN
        /\ spawned' = w
        /\ wpc' = [wpc EXCEPT ![w] = "spawned"]
        /\ fut' = [fut EXCEPT ![c] = w]
    /\ nquery' = nquery + 1
    /\ pc' = [pc EXCEPT ![c] = "created"]
    /\ UNCHANGED <<buildVars, it, stale, ret, acq, lockHolder, eng, inflight, qok, touched, nset, sessions,
                   dropDirty, completed, waker, gotReply, woke, readyFrom>>

\* mutant: poll answers Ready without looking at the completion flag
poll_without_flag(c) ==
    /\ pc[c] \in {"created", "runnable"}
    /\ fut[c] /= None
    /\ pc' = [pc EXCEPT ![c] = "results"]
    /\ readyFrom' = [readyFrom EXCEPT ![c] = fut[c]]
    /\ fut' = [fut EXCEPT ![c] = None]
    /\ qok' = [qok EXCEPT ![c] = TRUE]
    /\ stale' = FALSE
    /\ UNCHANGED <<buildVars, it, ret, acq, lockHolder, eng, inflight, sessionVars, workerVars>>

\* impl Future for QueryFuture: poll, the whole body under the shared-state mutex
poll(c) ==
    /\ pc[c] \in {"created", "runnable"}
    /\ fut[c] /= None
    /\ LET w == fut[c] IN
        IF completed[w]
        THEN /\ pc' = [pc EXCEPT ![c] = "results"]
             /\ readyFrom' = [readyFrom EXCEPT ![c] = w]
             /\ fut' = [fut EXCEPT ![c] = None]
             /\ qok' = [qok EXCEPT ![c] = TRUE]
             /\ stale' = FALSE
             /\ UNCHANGED waker
        ELSE /\ waker' = [waker EXCEPT ![w] = c]
             /\ pc' = [pc EXCEPT ![c] = "pending"]
             /\ UNCHANGED <<readyFrom, fut, qok, stale>>
    /\ UNCHANGED <<buildVars, it, ret, acq, lockHolder, eng, inflight, sessionVars, spawned, wpc,
                   completed, gotReply, woke>>

\* the future returned by query() is dropped after a poll and before it is
\* Ready (select!, a timeout): QueryFuture has no Drop, the worker runs on, the
\* &mut borrow of the searcher ends
QueryFuture_drop(c) ==
    /\ pc[c] \in {"runnable", "pending"}
    /\ fut[c] /= None
    /\ fut' = [fut EXCEPT ![c] = None]
    /\ pc' = [pc EXCEPT ![c] = "searcher"]
    /\ UNCHANGED <<buildVars, it, stale, ret, acq, lockHolder, eng, inflight, qok, sessionVars, workerVars,
                   readyFrom>>

\* worker closure: raw::Everything_SetReplyID(CUSTOM_REPLY_ID)
worker_set_reply_id(w) ==
    /\ wpc[w] = "spawned"
    /\ eng' = Everything_SetReplyID(eng, CUSTOM_REPLY_ID)
    /\ wpc' = [wpc EXCEPT ![w] = "idset"]
    /\ UNCHANGED <<buildVars, it, stale, ret, acq, lockHolder, pc, inflight, qok, sessionVars, spawned, fut,
                   completed, waker, gotReply, woke, readyFrom>>

\* the window created by create_window() for worker w
hwnd(w) == w

\* worker closure: create_window().unwrap(), raw::Everything_SetReplyWindow(hwnd).
\* When GetModuleHandleW, RegisterClassExW or CreateWindowExW fails, the `?`
\* with unwrap() or an assert! of create_window panics in the spawned thread:
\* the thread ends ("nowindow"), the other threads run on
worker_set_reply_window(w) ==
    /\ wpc[w] = "idset"
    /\ \E created \in BOOLEAN :
          IF created
          THEN /\ eng' = Everything_SetReplyWindow(eng, hwnd(w))
               /\ wpc' = [wpc EXCEPT ![w] = "winset"]
          ELSE /\ wpc' = [wpc EXCEPT ![w] = "nowindow"]
               /\ UNCHANGED eng
    /\ UNCHANGED <<buildVars, it, stale, ret, acq, lockHolder, pc, inflight, qok, sessionVars, spawned, fut,
                   completed, waker, gotReply, woke, readyFrom>>

\* worker closure: assert!(raw::Everything_Query(false)), then WaitMessage()
worker_query(w) ==
    /\ wpc[w] = "winset"
    /\ IF Everything_Query_fails
       THEN /\ eng' = [eng EXCEPT !.lastError = EVERYTHING_ERROR_IPC]
            /\ wpc' = [wpc EXCEPT ![w] = "panicked"]
            /\ UNCHANGED inflight
       ELSE /\ inflight' = Append(inflight, Posted(FALSE, eng.replyWindow, eng.replyId))
            /\ wpc' = [wpc EXCEPT ![w] = "posted"]
            /\ UNCHANGED eng
    /\ UNCHANGED <<buildVars, it, stale, ret, acq, lockHolder, pc, qok, sessionVars, spawned, fut,
                   completed, waker, gotReply, woke, readyFrom>>

\* the worker whose window is h, when that window exists
WindowOwner(h) == {w \in Workers : hwnd(w) = h /\ wpc[w] \in {"winset", "posted", "notified"}}

\* the pc values at which a caller holds an EverythingResults, or an
\* EverythingItem / Iter that outlived it
ResultStates == {"results", "items"}

\* wndproc, WM_COPYDATA arm: Everything_IsQueryReply(.., CUSTOM_REPLY_ID) copies
\* the results into the process-wide result list, whoever reads from it, and
\* WM_USER_IS_QUERY_REPLY_DONE is posted; a reply with another id panics
wndproc(w, id) ==
    /\ IF id = CUSTOM_REPLY_ID
       THEN /\ \E l \in ResultLists(eng) :
                  eng' = [eng EXCEPT !.hasResults = TRUE, !.list = l]
            /\ wpc' = [wpc EXCEPT ![w] = "notified"]
            /\ gotReply' = [gotReply EXCEPT ![w] = TRUE]
            /\ stale' = (\E c \in Callers : pc[c] \in ResultStates)
       ELSE /\ wpc' = [wpc EXCEPT ![w] = "panicked"]
            /\ UNCHANGED <<eng, gotReply, stale>>

\* the engine answers the oldest posted query: WM_COPYDATA is sent to the reply
\* window the query was posted with and handled by its wndproc once the owning
\* thread retrieves messages; with no such window the reply reaches nobody
EngineReplyPost ==
    /\ inflight /= <<>>
    /\ ~Head(inflight).wait
    /\ LET q == Head(inflight) IN
        IF WindowOwner(q.to) = {}
        THEN UNCHANGED <<eng, wpc, gotReply, stale>>
        ELSE \E w \in WindowOwner(q.to) :
                /\ wpc[w] \in {"posted", "notified"}
                /\ wndproc(w, q.id)
    /\ inflight' = Tail(inflight)
    /\ UNCHANGED <<buildVars, it, ret, acq, lockHolder, pc, qok, sessionVars, spawned, fut,
                   completed, waker, woke, readyFrom>>

\* worker closure: WaitMessage() returned, PeekMessageW finds
\* WM_USER_IS_QUERY_REPLY_DONE, DestroyWindow(hwnd)
worker_destroy_window(w) ==
    /\ wpc[w] = "notified"
    /\ wpc' = [wpc EXCEPT ![w] = "destroyed"]
    /\ UNCHANGED <<buildVars, it, stale, ret, acq, lockHolder, pc, eng, inflight, qok, sessionVars, spawned, fut,
                   completed, waker, gotReply, woke, readyFrom>>

\* waker.wake(): the task is scheduled to be polled again
wake(pcs, t) == IF pcs[t] = "pending" THEN [pcs EXCEPT ![t] = "runnable"] ELSE pcs

\* mutant: the completion step sets the flag and forgets the stored waker
worker_complete_without_wake(w) ==
    /\ wpc[w] = "destroyed"
    /\ completed' = [completed EXCEPT ![w] = TRUE]
    /\ wpc' = [wpc EXCEPT ![w] = "done"]
    /\ UNCHANGED <<buildVars, it, stale, ret, acq, lockHolder, pc, eng, inflight, qok, sessionVars, spawned, fut,
                   waker, gotReply, woke, readyFrom>>

\* mutant: the worker signals completion right after the completion message,
\* with the reply window still there
worker_complete_before_destroy(w) ==
    /\ wpc[w] = "notified"
    /\ completed' = [completed EXCEPT ![w] = TRUE]
    /\ waker' = [waker EXCEPT ![w] = None]
    /\ pc' = IF waker[w] /= None THEN wake(pc, waker[w]) ELSE pc
    /\ woke' = [woke EXCEPT ![w] = (waker[w] /= None)]
    /\ wpc' = [wpc EXCEPT ![w] = "done"]
    /\ UNCHANGED <<buildVars, it, stale, ret, acq, lockHolder, eng, inflight, qok, sessionVars, spawned, fut,
                   gotReply, readyFrom>>

\* worker closure, completion step under the shared-state mutex:
\* completed = true; if let Some(waker) = waker.take() { waker.wake() }
worker_complete(w) ==
    /\ wpc[w] = "destroyed"
    /\ completed' = [completed EXCEPT ![w] = TRUE]
    /\ waker' = [waker EXCEPT ![w] = None]
    /\ pc' = IF waker[w] /= None THEN wake(pc, waker[w]) ELSE pc
    /\ woke' = [woke EXCEPT ![w] = (waker[w] /= None)]
    /\ wpc' = [wpc EXCEPT ![w] = "done"]
    /\ UNCHANGED <<buildVars, it, stale, ret, acq, lockHolder, eng, inflight, qok, sessionVars, spawned, fut,
                   gotReply, readyFrom>>

\* ------------------------------------------------- results and items
\* what an accessor returns: Ok(val), Err(val) or a panic, with the foreign
\* functions it called on the way
Out(tag, val, ffi) == [tag |-> tag, val |-> val, ffi |-> ffi]

\* mutant: version 2 only when both the flags and the sort are off their default
should_use_query_version_2_both(request_flags, sort_type) ==
    request_flags /= RequestFlags_default /\ sort_type /= SortType_default

\* mod helper
is_default_request_flags(request_flags) == request_flags = RequestFlags_default
is_default_sort_type(sort_type) == sort_type = SortType_default
should_use_query_version_2(request_flags, sort_type) ==
    ~is_default_request_flags(request_flags) \/ ~is_default_sort_type(sort_type)

\* mutant: the counts look at the sort and flags set on the searcher
is_query_version_2_as_requested(e) ==
    should_use_query_version_2(Everything_GetRequestFlags(e), Everything_GetSort(e))

\* EverythingResults::request_flags / sort_type / is_query_version_2
request_flags(e) == Everything_GetResultListRequestFlags(e)
sort_type(e) == Everything_GetResultListSort(e)
is_query_version_2(e) == should_use_query_version_2(request_flags(e), sort_type(e))

\* the foreign calls of is_query_version_2
ProbeCalls == <<"Everything_GetResultListRequestFlags", "Everything_GetResultListSort">>

\* num_files, num_folders, total_files, total_folders: the guard, then the count
Count(e, raw, n) ==
    IF is_query_version_2(e)
    THEN Out("Err", "UnsupportedInQueryVersion2", ProbeCalls)
    ELSE Out("Ok", n, Append(ProbeCalls, raw))

EverythingResults_num_files(e) ==
    Count(e, "Everything_GetNumFileResults", Everything_GetNumFileResults(e))
EverythingResults_num_folders(e) ==
    Count(e, "Everything_GetNumFolderResults", Everything_GetNumFolderResults(e))
EverythingResults_total_files(e) ==
    Count(e, "Everything_GetTotFileResults", Everything_GetTotFileResults(e))
EverythingResults_total_folders(e) ==
    Count(e, "Everything_GetTotFolderResults", Everything_GetTotFolderResults(e))
\* mutant: num() reads the total
EverythingResults_num_as_total(e) ==
    Out("Ok", Everything_GetTotResults(e), <<"Everything_GetTotResults">>)

EverythingResults_num(e) ==
    Out("Ok", Everything_GetNumResults(e), <<"Everything_GetNumResults">>)
EverythingResults_total(e) ==
    Out("Ok", Everything_GetTotResults(e), <<"Everything_GetTotResults">>)

\* the count accessors by name
CountAccessors == {"num_files", "num_folders", "total_files", "total_folders"}
CountOut(e, op) ==
    CASE op = "num_files" -> EverythingResults_num_files(e)
      [] op = "num_folders" -> EverythingResults_num_folders(e)
      [] op = "total_files" -> EverythingResults_total_files(e)
      [] op = "total_folders" -> EverythingResults_total_folders(e)

\* the items results.iter() yields: index < len() and the flags of the list
Items(e) ==
    {[index |-> i, request_flags |-> request_flags(e)] : i \in 0..(Len(e.list.items) - 1)}

\* mutant: the guard looks at the low byte of the flags only
need_flags_set_low_byte(item, flags) ==
    RequestFlags_contains(item.request_flags % 256, flags % 256)

\* EverythingItem::need_flags_set
need_flags_set(item, flags) == RequestFlags_contains(item.request_flags, flags)

RequestFlagsNotSet == Out("Err", "RequestFlagsNotSet", <<>>)

\* the accessors of one field: the flag each checks
FieldFlag ==
    [filename |-> EVERYTHING_REQUEST_FILE_NAME,
     path |-> EVERYTHING_REQUEST_PATH,
     extension |-> EVERYTHING_REQUEST_EXTENSION,
     date_created |-> EVERYTHING_REQUEST_DATE_CREATED,
     date_modified |-> EVERYTHING_REQUEST_DATE_MODIFIED,
     date_accessed |-> EVERYTHING_REQUEST_DATE_ACCESSED,
     attributes |-> EVERYTHING_REQUEST_ATTRIBUTES,
     file_list_filename |-> EVERYTHING_REQUEST_FILE_LIST_FILE_NAME,
     run_count |-> EVERYTHING_REQUEST_RUN_COUNT,
     date_run |-> EVERYTHING_REQUEST_DATE_RUN,
     date_recently_changed |-> EVERYTHING_REQUEST_DATE_RECENTLY_CHANGED,
     highlighted_filename |-> EVERYTHING_REQUEST_HIGHLIGHTED_FILE_NAME,
     highlighted_path |-> EVERYTHING_REQUEST_HIGHLIGHTED_PATH,
     highlighted_full_path_and_filename |->
         EVERYTHING_REQUEST_HIGHLIGHTED_FULL_PATH_AND_FILE_NAME]

FieldAccessors == DOMAIN FieldFlag

\* filename, path, extension, the dates, attributes, ..: the guard, then
\* raw::Everything_GetResult..(self.index).unwrap(); run_count has no unwrap
\* (the raw function gives 0 when the count is not there)
EverythingItem_field(e, item, op) ==
    LET o == Everything_GetResultField(e, item.index, FieldFlag[op]) IN
    IF ~need_flags_set(item, FieldFlag[op]) THEN RequestFlagsNotSet
    ELSE IF o /= <<>> THEN Out("Ok", o[1], <<op>>)
    ELSE IF op = "run_count" THEN Out("Ok", 0, <<op>>)
    ELSE Out("panic", "unwrap", <<op>>)

\* u64::try_from(i64)
u64_try_from(n) == IF n >= 0 THEN Some(n) ELSE <<>>

\* mutant: size() hands on what the engine reports
EverythingItem_size_raw(e, item) ==
    LET file_size == Everything_GetResultSize(e, item.index) IN
    IF ~need_flags_set(item, EVERYTHING_REQUEST_SIZE) THEN RequestFlagsNotSet
    ELSE IF file_size = <<>> THEN Out("panic", "unwrap", <<"Everything_GetResultSize">>)
    ELSE Out("Ok", file_size[1], <<"Everything_GetResultSize">>)

\* EverythingItem::size
EverythingItem_size(e, item) ==
    LET file_size == Everything_GetResultSize(e, item.index) IN
    IF ~need_flags_set(item, EVERYTHING_REQUEST_SIZE) THEN RequestFlagsNotSet
    ELSE IF file_size = <<>> THEN Out("panic", "unwrap", <<"Everything_GetResultSize">>)
    ELSE IF u64_try_from(file_size[1]) /= <<>>
         THEN Out("Ok", u64_try_from(file_size[1])[1], <<"Everything_GetResultSize">>)
    ELSE IF Everything_IsFolderResult(e, item.index)
         THEN Out("Ok", 0, <<"Everything_GetResultSize", "Everything_IsFolderResult">>)
    ELSE Out("panic", "file size should not be a negative integer",
             <<"Everything_GetResultSize", "Everything_IsFolderResult">>)

\* std::cmp::min on u32, and `as usize`
u32_min(a, b) == IF u32_le(a, b) THEN a ELSE b
usize(a) == a[1] * (U16_MAX + 1) + a[2]

FullPathCalls == <<"Everything_GetResultFullPathNameSizeHint", "Everything_GetResultFullPathName">>

\* what filepath() and full_path_name() share: the size hint is probed, a
\* buffer of buf_len(size_hint) zeros is filled, assert_eq!(size_hint, n_wchar + 1),
\* and the buffer is read back as a NUL terminated string
TwoPhase(e, item, max_len) ==
    LET hint == Everything_GetResultFullPathNameSizeHint(e, item.index)
        buf_len == usize(u32_min(u32(hint[1]), unwrap_or(max_len, U32_MAX)))
        n_wchar == Everything_GetResultFullPathName(e, item.index, buf_len)
    IN  IF hint = <<>> THEN Out("panic", "unwrap", <<FullPathCalls[1]>>)
        ELSE IF n_wchar = <<>> THEN Out("panic", "unwrap", FullPathCalls)
        ELSE IF hint[1] /= n_wchar[1] + 1 THEN Out("panic", "assert_eq", FullPathCalls)
        ELSE Out("Ok", FullPathCopied(e, item.index, buf_len), FullPathCalls)

\* EverythingItem::filepath
EverythingItem_filepath(e, item) ==
    IF ~need_flags_set(item, EVERYTHING_REQUEST_PATH + EVERYTHING_REQUEST_FILE_NAME)
    THEN RequestFlagsNotSet
    ELSE TwoPhase(e, item, <<>>)

\* EverythingItem::full_path_name(max_len: Option<u32>)
EverythingItem_full_path_name(e, item, max_len) ==
    IF ~need_flags_set(item, EVERYTHING_REQUEST_FULL_PATH_AND_FILE_NAME)
    THEN RequestFlagsNotSet
    ELSE TwoPhase(e, item, max_len)

\* the max_len arguments tried: None and Some(0) .. Some(MaxLenArg)
MaxLens == {<<>>} \cup {Some(u32(n)) : n \in 0..MaxLenArg}

\* ------------------------------------------------- the iterator
\* u32 addition and subtraction as the machine does them: the result modulo
\* 2^32 and whether it overflowed
u32_add(a, b) ==
    LET lo == a[2] + b[2]
        hi == a[1] + b[1] + lo \div (U16_MAX + 1)
    IN  [sum |-> <<hi % (U16_MAX + 1), lo % (U16_MAX + 1)>>, overflow |-> hi > U16_MAX]

u32_sub(a, b) ==
    LET borrow == IF a[2] < b[2] THEN 1 ELSE 0
        lo == a[2] - b[2] + borrow * (U16_MAX + 1)
        hi == a[1] - b[1] - borrow
    IN  [sum |-> <<hi % (U16_MAX + 1), lo>>, overflow |-> hi < 0]

\* a usize of a 64-bit target: <<the bits from 2^32 up, the low 32 bits>>;
\* `index as usize` and u32::try_from(n)
usize_from(a) == <<0, a>>
u32_try_from(n) == IF n[1] = 0 THEN Some(n[2]) ELSE <<>>

\* what a call on an iterator leaves: the iterator and the returned value
Step(i, out) == [it |-> i, out |-> out]

\* EverythingResults::len: self.num()
EverythingResults_len(e) == Everything_GetNumResults(e)

\* EverythingResults::iter and IntoIterator::into_iter build the same Iter
EverythingResults_iter(e) ==
    [next_index |-> u32(0), length |-> EverythingResults_len(e),
     request_flags |-> request_flags(e)]

\* the EverythingItem an iterator hands out for `index`
EverythingItem(i, index) == [index |-> usize(index), request_flags |-> i.request_flags]

\* mutant: next() also yields the item at index length
Iter_next_inclusive(i) ==
    IF u32_le(i.next_index, i.length)
    THEN Step([i EXCEPT !.next_index = u32_add(i.next_index, u32(1)).sum],
              Out("Ok", Some(EverythingItem(i, i.next_index)), <<>>))
    ELSE Step(i, Out("Ok", <<>>, <<>>))

\* Iter::next
Iter_next(i) ==
    IF u32_lt(i.next_index, i.length)
    THEN Step([i EXCEPT !.next_index = u32_add(i.next_index, u32(1)).sum],
              Out("Ok", Some(EverythingItem(i, i.next_index)), <<>>))
    ELSE Step(i, Out("Ok", <<>>, <<>>))

\* Iter::size_hint: self.length - self.next_index, which panics (overflow
\* checks on) or wraps when next_index is above length
Iter_size_hint(i, overflow_checks) ==
    LET rest == u32_sub(i.length, i.next_index) IN
    IF rest.overflow /\ overflow_checks
    THEN Out("panic", "attempt to subtract with overflow", <<>>)
    ELSE Out("Ok", rest.sum, <<>>)

\* Iter::nth: self.next_index + u32::try_from(n).unwrap() panics when n does
\* not fit in a u32; the sum panics (overflow checks on, the default of a debug
\* build) or wraps (release build) when it does not fit in a u32
Iter_nth(i, n, overflow_checks) ==
    LET d == u32_try_from(n) IN
    IF d = <<>> THEN Step(i, Out("panic", "unwrap on TryFromIntError", <<>>))
    ELSE LET s == u32_add(i.next_index, d[1])
             index == s.sum
         IN  IF s.overflow /\ overflow_checks
             THEN Step(i, Out("panic", "attempt to add with overflow", <<>>))
             ELSE IF u32_lt(index, i.length)
                  THEN Step([i EXCEPT !.next_index = u32_add(index, u32(1)).sum],
                            Out("Ok", Some(EverythingItem(i, index)), <<>>))
                  ELSE Step([i EXCEPT !.next_index = i.length], Out("Ok", <<>>, <<>>))

\* EverythingResults::at: self.iter().nth(index as usize)
EverythingResults_at(e, index, overflow_checks) ==
    Iter_nth(EverythingResults_iter(e), usize_from(index), overflow_checks).out

\* the call of an accessor on the live results of caller c: the counts through
\* the EverythingResults, the rest through an EverythingItem<'a>, which may
\* outlive the EverythingResults<'a> it came from
Call(c, op, index, arg, flag, out) ==
    /\ pc[c] \in IF op \in CountAccessors THEN {"results"} ELSE ResultStates
    /\ ret = NoCall
    /\ ret' = [op |-> op, index |-> index, arg |-> arg, flag |-> flag, raw |-> 0,
               last_error |-> eng.lastError,
               tag |-> out.tag, val |-> out.val, ffi |-> out.ffi]
    /\ UNCHANGED <<buildVars, it, stale, acq, lockHolder, pc, eng, inflight, qok, sessionVars,
                   workerVars, fut, readyFrom>>

\* EverythingResults::into_iter(self) (or at / iter and then the end of the
\* EverythingResults): the handle is gone, the Iter<'a> and its EverythingItem<'a>
\* live on and keep the &'a mut borrow of the searcher
into_iter(c) ==
    /\ pc[c] = "results"
    /\ pc' = [pc EXCEPT ![c] = "items"]
    /\ it' = Some(EverythingResults_iter(eng))
    /\ UNCHANGED <<buildVars, stale, ret, acq, lockHolder, eng, inflight, qok, sessionVars,
                   workerVars, fut, readyFrom>>

\* the last EverythingItem<'a> / Iter<'a> goes out of scope: the borrow of the
\* searcher ends
drop_items(c) ==
    /\ pc[c] = "items"
    /\ pc' = [pc EXCEPT ![c] = "searcher"]
    /\ readyFrom' = [readyFrom EXCEPT ![c] = None]
    /\ ret' = NoCall
    /\ stale' = FALSE
    /\ it' = <<>>
    /\ UNCHANGED <<buildVars, acq, lockHolder, eng, inflight, qok, sessionVars, workerVars, fut>>

\* the arguments nth and at are called with: small ones around the number of
\* results, the largest u32 values, and for nth a usize above u32::MAX
AtArgs == {u32(k) : k \in 0..(IndexSize + 1)} \cup {U32_MAX}
NthArgs ==
    {usize_from(a) : a \in AtArgs \cup {<<U16_MAX, U16_MAX - 1>>}} \cup {<<1, u32(0)>>}

IterOps == {"iter", "next", "nth", "at", "size_hint"}

\* a call on the results or on their iterator that leaves the iterator i
IterCall(c, op, arg, i, out) ==
    /\ pc[c] \in ResultStates
    /\ ret.op \in IterOps \cup {"none"}
    /\ ret.tag /= "panic"
    /\ it' = i
    /\ ret' = [NoCall EXCEPT !.op = op, !.arg = arg, !.tag = out.tag, !.val = out.val]
    /\ UNCHANGED <<buildVars, stale, acq, lockHolder, pc, eng, inflight, qok, sessionVars,
                   workerVars, fut, readyFrom>>

iter(c) ==
    /\ pc[c] = "results"
    /\ IterCall(c, "iter", <<>>, Some(EverythingResults_iter(eng)), Out("Ok", 0, <<>>))

next(c) ==
    /\ it /= <<>>
    /\ LET r == Iter_next(it[1]) IN IterCall(c, "next", <<>>, Some(r.it), r.out)

nth(c) ==
    /\ it /= <<>>
    /\ \E n \in NthArgs : \E overflow_checks \in BOOLEAN :
          LET r == Iter_nth(it[1], n, overflow_checks) IN
              IterCall(c, "nth", <<n>>, Some(r.it), r.out)

size_hint(c) ==
    /\ it /= <<>>
    /\ \E overflow_checks \in BOOLEAN :
          IterCall(c, "size_hint", <<>>, it, Iter_size_hint(it[1], overflow_checks))

at(c) ==
    /\ pc[c] = "results"
    /\ \E index \in AtArgs : \E overflow_checks \in BOOLEAN :
          IterCall(c, "at", <<index>>, it, EverythingResults_at(eng, index, overflow_checks))

num_files(c) == Call(c, "num_files", 0, <<>>, 0, EverythingResults_num_files(eng))
num_folders(c) == Call(c, "num_folders", 0, <<>>, 0, EverythingResults_num_folders(eng))
total_files(c) == Call(c, "total_files", 0, <<>>, 0, EverythingResults_total_files(eng))
total_folders(c) == Call(c, "total_folders", 0, <<>>, 0, EverythingResults_total_folders(eng))
num(c) == Call(c, "num", 0, <<>>, 0, EverythingResults_num(eng))
total(c) == Call(c, "total", 0, <<>>, 0, EverythingResults_total(eng))

field(c) ==
    \E item \in Items(eng) : \E op \in FieldAccessors :
        Call(c, op, item.index, <<>>, FieldFlag[op], EverythingItem_field(eng, item, op))

size(c) ==
    \E item \in Items(eng) :
        Call(c, "size", item.index, <<>>, EVERYTHING_REQUEST_SIZE,
             EverythingItem_size(eng, item))

filepath(c) ==
    \E item \in Items(eng) :
        Call(c, "filepath", item.index, <<>>,
             EVERYTHING_REQUEST_PATH + EVERYTHING_REQUEST_FILE_NAME,
             EverythingItem_filepath(eng, item))

full_path_name(c) ==
    \E item \in Items(eng) : \E max_len \in MaxLens :
        Call(c, "full_path_name", item.index, max_len,
             EVERYTHING_REQUEST_FULL_PATH_AND_FILE_NAME,
             EverythingItem_full_path_name(eng, item, max_len))

\* the version numbers and run counts the engine is asked for: what the
\* foreign call returns
EngineNumbers == {0, 1, 4}

\* get_major_version, get_minor_version, get_revision, get_build_number and
\* get_run_count(filename) of EverythingGlobal: the foreign call returns n and
\* leaves the last error err, then zero_or_ipc_error(n).ok_or(EverythingError::Ipc).
\* With Everything not running the call returns 0 and sets EVERYTHING_ERROR_IPC;
\* with Everything running it does not set that error (it may still be there
\* from a call before). A panic ends the program.
GlobalAccessors ==
    {"get_major_version", "get_minor_version", "get_revision", "get_build_number",
     "get_run_count"}

ok_or_Ipc(o, raw) ==
    CASE o.tag = "Some" -> Out("Ok", o.val, <<raw, "Everything_GetLastError">>)
      [] o.tag = "None" -> Out("Err", "Ipc", <<raw, "Everything_GetLastError">>)
      [] OTHER -> Out("panic", "unreachable", <<raw, "Everything_GetLastError">>)

\* mutant: the accessors of EverythingGlobal can be called beside a live searcher
GlobalCall_beside_searcher(c, op, n, err) ==
    /\ pc[c] \in {"guard", "searcher"}
    /\ ret.op \in GlobalAccessors \cup {"none"}
    /\ ret.tag /= "panic"
    /\ ~ipc => n = 0 /\ err = EVERYTHING_ERROR_IPC
    /\ ipc /\ err = EVERYTHING_ERROR_IPC => eng.lastError = EVERYTHING_ERROR_IPC
    /\ eng' = [eng EXCEPT !.lastError = err]
    /\ LET out == ok_or_Ipc(zero_or_ipc_error(n, err), op) IN
         ret' = [op |-> op, index |-> 0, arg |-> <<ipc>>, flag |-> 0, raw |-> n,
                 last_error |-> err,
                 tag |-> out.tag, val |-> out.val, ffi |-> out.ffi]
    /\ UNCHANGED <<buildVars, it, stale, acq, lockHolder, pc, inflight, qok, sessionVars,
                   workerVars, fut, readyFrom>>

\* an accessor of EverythingGlobal (&self / &mut self on the guard): not while
\* the searcher made by searcher(&'a mut self) holds the borrow of the guard
GlobalCall(c, op, n, err) ==
    /\ pc[c] = "guard"
    /\ ret.op \in GlobalAccessors \cup {"none"}
    /\ ret.tag /= "panic"
    /\ ~ipc => n = 0 /\ err = EVERYTHING_ERROR_IPC
    /\ ipc /\ err = EVERYTHING_ERROR_IPC => eng.lastError = EVERYTHING_ERROR_IPC
    /\ eng' = [eng EXCEPT !.lastError = err]
    /\ LET out == ok_or_Ipc(zero_or_ipc_error(n, err), op) IN
         ret' = [op |-> op, index |-> 0, arg |-> <<ipc>>, flag |-> 0, raw |-> n,
                 last_error |-> err,
                 tag |-> out.tag, val |-> out.val, ffi |-> out.ffi]
    /\ UNCHANGED <<buildVars, it, stale, acq, lockHolder, pc, inflight, qok, sessionVars,
                   workerVars, fut, readyFrom>>

get_major_version(c) ==
    \E n \in EngineNumbers : \E err \in LastErrors : GlobalCall(c, "get_major_version", n, err)
get_minor_version(c) ==
    \E n \in EngineNumbers : \E err \in LastErrors : GlobalCall(c, "get_minor_version", n, err)
get_revision(c) ==
    \E n \in EngineNumbers : \E err \in LastErrors : GlobalCall(c, "get_revision", n, err)
get_build_number(c) ==
    \E n \in EngineNumbers : \E err \in LastErrors : GlobalCall(c, "get_build_number", n, err)
\* Everything_GetRunCountFromFileName: the run count of the file (zero when it
\* was never run) with the last error set to EVERYTHING_OK or left as the call
\* before left it ("if run count is zero, last error will not set OK(0) in C
\* code"; "may OR may not be set or updated to OK"), or 0 with
\* EVERYTHING_ERROR_IPC when Everything is not running
get_run_count(c) ==
    \E n \in EngineNumbers :
        \E err \in IF ipc THEN {EVERYTHING_OK, eng.lastError} ELSE {EVERYTHING_ERROR_IPC} :
            GlobalCall(c, "get_run_count", n, err)

\* Everything.exe is started, or exits, while the program holds the guard
Everything_process ==
    /\ \E c \in Callers : pc[c] = "guard"
    /\ ipc' = ~ipc
    /\ UNCHANGED <<mode, it, stale, ret, acq, lockHolder, pc, eng, inflight, qok, sessionVars,
                   workerVars, fut, readyFrom>>

\* ------------------------------------------------- reading the search state
\* mutant: the discriminants are taken to start at zero
SortType_try_from_zero_based(n) ==
    IF n \in 0..(EVERYTHING_SORT_DATE_RUN_DESCENDING - 1) THEN Some(n) ELSE <<>>

\* SortType::try_from(u32) of #[derive(Primitive)]: the variant with that
\* discriminant, if there is one
SortType_try_from(n) == IF n \in SortTypes THEN Some(n) ELSE <<>>

\* get_sort(): raw::Everything_GetSort() is
\* SortType::try_from(sdk_sys::Everything_GetSort()).expect(..)
EverythingSearcher_get_sort(e) ==
    LET o == SortType_try_from(Everything_GetSort(e)) IN
    IF o = <<>> THEN Out("panic", "expect", <<"Everything_GetSort">>)
    ELSE Out("Ok", o[1], <<"Everything_GetSort">>)

\* get_request_flags(): raw::Everything_GetRequestFlags() is
\* RequestFlags::from_bits(sdk_sys::Everything_GetRequestFlags()).expect(..)
EverythingSearcher_get_request_flags(e) ==
    LET bits == Everything_GetRequestFlags(e) IN
    IF RequestFlags_from_bits(bits) THEN Out("Ok", bits, <<"Everything_GetRequestFlags">>)
    ELSE Out("panic", "expect", <<"Everything_GetRequestFlags">>)

\* a setter of the live searcher called with any value of its type (`sort_type
\* as u32`, `flags.bits()`); the value is remembered for the read back
SetterCall(c, p, v, e) ==
    /\ pc[c] = "searcher"
    /\ ret = NoCall
    /\ nset < MaxSetterCalls
    /\ eng' = e
    /\ touched' = touched \cup {p}
    /\ nset' = nset + 1
    /\ ret' = [NoCall EXCEPT !.op = "set_" \o p, !.arg = <<v>>]
    /\ UNCHANGED <<buildVars, it, stale, acq, lockHolder, pc, inflight, qok, nquery, sessions, dropDirty,
                   workerVars, fut, readyFrom>>

set_sort_any(c) ==
    /\ ret = NoCall
    /\ \E s \in SortTypes : SetterCall(c, "sort", s, Everything_SetSort(eng, s))
set_request_flags_any(c) ==
    /\ ret = NoCall
    /\ \E f \in AllRequestFlags :
          SetterCall(c, "request_flags", f, Everything_SetRequestFlags(eng, f))

\* a getter of the live searcher, called first or after the setter `p`
GetterCall(c, p, out) ==
    /\ pc[c] = "searcher"
    /\ ret.op \in {"none", "set_sort", "set_request_flags"}
    /\ ret' = [op |-> "get_" \o p, index |-> 0,
               arg |-> IF ret.op = "set_" \o p THEN ret.arg ELSE <<>>,
               flag |-> 0, raw |-> 0, last_error |-> eng.lastError,
               tag |-> out.tag, val |-> out.val, ffi |-> out.ffi]
    /\ UNCHANGED <<buildVars, it, stale, acq, lockHolder, pc, eng, inflight, qok, sessionVars,
                   workerVars, fut, readyFrom>>

get_sort(c) == GetterCall(c, "sort", EverythingSearcher_get_sort(eng))
get_request_flags(c) ==
    GetterCall(c, "request_flags", EverythingSearcher_get_request_flags(eng))

\* ------------------------------------------------------------ the system
\* the gate: the mutex of global() and the nesting of the handles
GateStep(c) ==
    \/ global_try_lock(c)
    \/ global_lock(c)
    \/ global_lock_acquired(c)
    \/ drop_guard(c)
    \/ searcher(c)
    \/ drop_searcher(c)
    \/ drop_results(c)
    \/ query_sync(c)
    \/ _query_and_sort_by_path(c)

\* the setters of a live searcher
SetterStep(c) ==
    \/ set_search(c)
    \/ set_match_path(c)
    \/ set_match_case(c)
    \/ set_match_whole_word(c)
    \/ set_regex(c)
    \/ set_max(c)
    \/ set_offset(c)
    \/ set_sort(c)
    \/ set_request_flags(c)

\* the caller's side of an asynchronous query
FutureStep(c) ==
    \/ QueryFuture_new(c)
    \/ poll(c)
    \/ QueryFuture_drop(c)

WorkerStep(w) ==
    \/ worker_set_reply_id(w)
    \/ worker_set_reply_window(w)
    \/ worker_query(w)
    \/ worker_destroy_window(w)
    \/ worker_complete(w)

EngineStep ==
    \/ EngineReplyWait
    \/ EngineReplyPost

\* the counts of a live result set
CountStep(c) ==
    \/ num_files(c)
    \/ num_folders(c)
    \/ total_files(c)
    \/ total_folders(c)
    \/ num(c)
    \/ total(c)

\* the accessors of the items of a live result set
ItemStep(c) ==
    \/ field(c)
    \/ size(c)
    \/ filepath(c)
    \/ full_path_name(c)

\* the accessors of EverythingGlobal that use zero_or_ipc_error
GlobalStep(c) ==
    \/ get_major_version(c)
    \/ get_minor_version(c)
    \/ get_revision(c)
    \/ get_build_number(c)
    \/ get_run_count(c)

\* callers, worker threads and the engine, in either build; the search
\* parameters stay as the handles leave them
Next ==
    \/ \E c \in Callers : GateStep(c)
    \/ \E c \in Callers : FutureStep(c)
    \/ \E w \in Workers : WorkerStep(w)
    \/ EngineStep

Spec == Init /\ [][Next]_vars

\* the executor polls a woken task, a spawned thread keeps running, the engine
\* answers what it was sent
Fairness ==
    /\ \A c \in Callers : WF_vars(poll(c))
    /\ \A w \in Workers : WF_vars(WorkerStep(w))
    /\ WF_vars(EngineStep)

FairSpec == Spec /\ Fairness

\* the mutex hands itself to a thread or task waiting in lock() once it is free
GateFairness == \A c \in Callers : WF_vars(global_lock_acquired(c))

GateFairSpec == Spec /\ GateFairness

\* callers that configure the search through the setters and query with
\* Everything_Query(true), in either build
NextParams ==
    \/ \E c \in Callers : GateStep(c)
    \/ \E c \in Callers : SetterStep(c)
    \/ \E c \in Callers : CountStep(c)
    \/ EngineReplyWait

SpecParams == Init /\ [][NextParams]_vars

\* the first caller holds the guard (stage = "guard") or the results of a blocking
\* query (stage = "results") made with the search state e and answered with list l
Holding(stage, e, l) ==
    /\ mode = "sync"
    /\ ipc = TRUE
    /\ lockHolder = 1
    /\ pc = [c \in Callers |-> IF c = 1 THEN stage ELSE "idle"]
    /\ eng = IF stage = "results" THEN [e EXCEPT !.hasResults = TRUE, !.list = l] ELSE EngineInit
    /\ inflight = <<>>
    /\ qok = [c \in Callers |-> TRUE]
    /\ touched = IF stage = "results"
                 THEN {p \in Params : Getter(e, p) /= DocumentedDefault(p)} ELSE {}
    /\ nset = Cardinality(touched)
    /\ nquery = IF stage = "results" THEN 1 ELSE 0
    /\ sessions = IF stage = "guard" THEN 0 ELSE 1
    /\ spawned = 0
    /\ fut = [c \in Callers |-> None]
    /\ wpc = [w \in Workers |-> "none"]
    /\ completed = [w \in Workers |-> FALSE]
    /\ waker = [w \in Workers |-> None]
    /\ gotReply = [w \in Workers |-> FALSE]
    /\ readyFrom = [c \in Callers |-> None]
    /\ dropDirty = FALSE
    /\ woke = [w \in Workers |-> FALSE]
    /\ acq = [c \in Callers |-> "none"]
    /\ ret = NoCall
    /\ stale = FALSE
    /\ it = <<>>

\* a result set for the search text "jpg" from offset 1 with any request
\* flags, fulfilled
InitFlags ==
    \E f \in AllRequestFlags :
        LET e == Everything_SetRequestFlags(
                     Everything_SetOffset(Everything_SetSearch(EngineInit, "jpg"), u32(1)), f)
        IN  Holding("results", e, ResultList(e, TRUE))

NextFlags == \E c \in Callers : ItemStep(c)

SpecFlags == InitFlags /\ [][NextFlags]_vars

\* the request flags of the result sets whose counts and items are read
ItemFlagValues ==
    {RequestFlags_default,
     RequestFlags_default + EVERYTHING_REQUEST_SIZE,
     RequestFlags_default + EVERYTHING_REQUEST_SIZE + EVERYTHING_REQUEST_ATTRIBUTES,
     EVERYTHING_REQUEST_FULL_PATH_AND_FILE_NAME,
     EVERYTHING_REQUEST_FULL_PATH_AND_FILE_NAME + EVERYTHING_REQUEST_SIZE,
     EVERYTHING_REQUEST_FILE_NAME}

\* a guard with no searcher, or a result set for any search text, sort type and
\* these request flags, fulfilled or answered with the version 1 list
InitItems ==
    \/ Holding("guard", EngineInit, EngineInit.list)
    \/ \E text \in SearchTexts : \E f \in ItemFlagValues : \E st \in SortTypes :
          LET e == Everything_SetSort(
                       Everything_SetRequestFlags(Everything_SetSearch(EngineInit, text), f), st)
          IN  \E l \in ResultLists(e) : Holding("results", e, l)

NextItems ==
    \/ \E c \in Callers : CountStep(c)
    \/ \E c \in Callers : ItemStep(c)
    \/ \E c \in Callers : GlobalStep(c)
    \/ Everything_process

SpecItems == InitItems /\ [][NextItems]_vars

\* a live searcher with the engine in its default state, whose sort and request
\* flags are set and read back
InitRound == Holding("searcher", EngineInit, EngineInit.list)

NextRound ==
    \E c \in Callers :
        \/ set_sort_any(c)
        \/ set_request_flags_any(c)
        \/ get_sort(c)
        \/ get_request_flags(c)

SpecRound == InitRound /\ [][NextRound]_vars

\* the handles of either build with the reads through a result set and through
\* the items that outlive it
NextWindow ==
    \/ \E c \in Callers : GateStep(c)
    \/ \E c \in Callers : FutureStep(c)
    \/ \E w \in Workers : WorkerStep(w)
    \/ EngineStep
    \/ \E c \in Callers : num(c)
    \/ \E c \in Callers : size(c)
    \/ \E c \in Callers : into_iter(c)
    \/ \E c \in Callers : drop_items(c)

SpecWindow == Init /\ [][NextWindow]_vars

\* the gate with a searcher that sets the search text and queries, and the
\* accessors of EverythingGlobal called through the guard
NextGuard ==
    \/ \E c \in Callers : GateStep(c)
    \/ \E c \in Callers : set_search(c)
    \/ EngineReplyWait
    \/ \E c \in Callers : get_major_version(c)
    \/ \E c \in Callers : get_run_count(c)

SpecGuard == Init /\ [][NextGuard]_vars

\* result sets of every length from 0 to IndexSize, read through the iterator
InitIter ==
    \E text \in SearchTexts : \E k \in 0..IndexSize :
        LET e == Everything_SetOffset(Everything_SetSearch(EngineInit, text), u32(k))
        IN  Holding("results", e, ResultList(e, TRUE))

NextIter ==
    \E c \in Callers :
        \/ iter(c)
        \/ into_iter(c)
        \/ next(c)
        \/ nth(c)
        \/ size_hint(c)
        \/ at(c)

SpecIter == InitIter /\ [][NextIter]_vars

\* ------------------------------------------------------------ the claims
\* C1: in every interleaving of lock, try_lock, searcher(), query() and handle
\* drops, at most one caller owns an EverythingSearcher and at most one owns an
\* EverythingResults; a second attempt never yields a second handle.
C1_AtMostOneHandle ==
    /\ Cardinality({c \in Callers : pc[c] \in SearcherStates}) <= 1
    /\ Cardinality({c \in Callers : pc[c] = "results"}) <= 1
    /\ \A c \in Callers : pc[c] \in SearcherStates \cup {"guard"} => lockHolder = c

\* a results handle is live while another caller waits in lock()
C1_Witness ==
    \E c, d \in Callers : c /= d /\ pc[c] = "results" /\ pc[d] = "blocked"

\* C2: queries are strictly serialized: a query is never posted to the engine
\* while a previously posted query has not been answered, in the sync and the
\* async build, whether or not a caller abandons a query it started.
C2_Serialized == Len(inflight) <= 1

\* C3: poll returns Ready with an EverythingResults only after the worker of
\* that future has seen the query reply with the matching reply identifier and
\* has set the completion flag; never while the flag is false.
C3_ReadyOnlyAfterReply ==
    \A c \in Callers :
        readyFrom[c] /= None =>
            /\ completed[readyFrom[c]]
            /\ gotReply[readyFrom[c]]
            /\ wpc[readyFrom[c]] = "done"

\* a caller holds the results its query future returned
C3_Witness ==
    \E c \in Callers : pc[c] = "results" /\ readyFrom[c] /= None

\* C4: no wake-up is lost: whatever the interleaving of poll with the worker's
\* completion step, once the flag of the future a caller awaits is set, that
\* caller is polled again and resumes with Ready (unless it drops the future).
C4_NoLostWakeup ==
    \A c \in Callers : \A w \in Workers :
        (fut[c] = w /\ completed[w]) ~> (readyFrom[c] = w \/ fut[c] /= w)

\* a caller that was suspended with its waker stored got Ready after the wake
C4_Witness ==
    \E c \in Callers : pc[c] = "results" /\ readyFrom[c] /= None /\ woke[readyFrom[c]]

\* C5: once an asynchronous query has been started, its worker thread always
\* eventually sets the completion flag, and the flag is never taken back, even
\* if the caller drops the future.
C5_WorkerAlwaysSignals ==
    /\ \A w \in Workers : (wpc[w] = "spawned") ~> completed[w]
    /\ [][\A w \in Workers : completed[w] => completed'[w]]_vars

\* C6: a query executed while the Everything process is unreachable is surfaced
\* as an error: no caller is handed an EverythingResults for a query whose
\* Everything_Query returned false.
C6_IpcErrorSurfaced ==
    \A c \in Callers : pc[c] = "results" => qok[c]

\* the step that drops caller c's EverythingSearcher, EverythingResults, guard
DropsSearcher(c) == pc[c] = "searcher" /\ pc'[c] = "guard"
DropsResults(c) == pc[c] = "results" /\ pc'[c] = "searcher"
DropsGuard(c) == pc[c] = "guard" /\ pc'[c] = "idle"

\* what the getters read for the parameters Everything_Reset lists
ListedDefaults(e) == \A p \in ResetParams : Getter(e, p) = DocumentedDefault(p)

\* C7: dropping an EverythingSearcher always leaves the search text empty,
\* match-path, match-case, match-whole-word and regex disabled, max-results
\* u32::MAX and offset zero, whatever setters and queries came before.
C7_DropResets ==
    [][\A c \in Callers : DropsSearcher(c) => ListedDefaults(eng')]_vars

\* a searcher has just been dropped that had moved a listed parameter off its
\* default
C7_Witness ==
    \E c \in Callers :
        pc[c] = "guard" /\ touched \cap ResetParams /= {} /\ dropDirty /\ ListedDefaults(eng)

C9_DropResultsFrame ==
    [][\A c \in Callers :
          DropsResults(c) =>
              /\ eng' = eng
              /\ inflight' = inflight
              /\ lockHolder = c /\ lockHolder' = c
              /\ pc'[c] = "searcher"]_vars

\* a second result set is live in one session, after setters, the lock never
\* released
C9_Witness ==
    \E c \in Callers :
        pc[c] = "results" /\ lockHolder = c /\ nquery >= 2 /\ touched /= {}

\* C10 as claimed: the drop of the searcher resets the engine and releases the
\* Engine Session lock.
C10_DropReleasesLock ==
    [][\A c \in Callers :
          DropsSearcher(c) => ListedDefaults(eng') /\ lockHolder' = None]_vars

\* C10 amended: the drop of the searcher resets the engine and leaves the lock
\* with the guard the searcher was borrowed from; the drop of that guard is what
\* frees the lock.
C10_DropKeepsLock ==
    [][\A c \in Callers :
          /\ DropsSearcher(c) =>
                /\ ListedDefaults(eng')
                /\ lockHolder' = c
          /\ DropsGuard(c) => lockHolder' = None]_vars

\* the searcher is gone, its guard still holds the lock and another caller is
\* kept waiting in lock()
C10_Witness ==
    \E c, d \in Callers :
        /\ c /= d
        /\ pc[c] = "guard" /\ lockHolder = c /\ touched /= {}
        /\ pc[d] = "blocked"

\* the step in which caller c's try_lock returns the guard / reports the mutex
\* as held
TryLockSucceeds(c) == pc[c] = "idle" /\ pc'[c] = "guard"
TryLockFails(c) == acq[c] /= "err" /\ acq'[c] = "err"

\* C11: while a guard of global() is held every try_lock fails at once and the
\* caller is not made to wait; when no guard is held (the holder dropped it)
\* try_lock returns the guard.
C11_TryLock ==
    [][\A c \in Callers :
          /\ TryLockFails(c) =>
                /\ lockHolder /= None
                /\ pc'[c] = "idle"
                /\ lockHolder' = lockHolder
          /\ TryLockSucceeds(c) => lockHolder = None /\ lockHolder' = c
          /\ lockHolder /= None /\ lockHolder /= c => pc'[c] /= "guard"]_vars

\* a caller whose try_lock failed while another caller held the guard tried
\* again after that guard was dropped and now holds the guard itself
C11_Witness ==
    \E c \in Callers : pc[c] = "guard" /\ lockHolder = c /\ acq[c] = "retried"

HasBit(mask, flag) == (mask \div flag) % 2 = 1

\* the sixteen accessors that check one flag each
OneFlagAccessors == FieldAccessors \cup {"size", "full_path_name"}

CountCall ==
    [num_files |-> "Everything_GetNumFileResults",
     num_folders |-> "Everything_GetNumFolderResults",
     total_files |-> "Everything_GetTotFileResults",
     total_folders |-> "Everything_GetTotFolderResults"]

\* the accessor failed with UnsupportedInQueryVersion2 before its count call
Unsupported(r) ==
    /\ r.tag = "Err" /\ r.val = "UnsupportedInQueryVersion2"
    /\ \A i \in 1..Len(r.ffi) : r.ffi[i] /= CountCall[r.op]

\* the searcher of the live results set a sort order other than the default
\* before the query
SortWasSet == "sort" \in touched /\ Everything_GetSort(eng) /= SortType_default

\* C14 as claimed: after set_sort with a non-default sort order and a query,
\* num_files, num_folders, total_files and total_folders fail with
\* UnsupportedInQueryVersion2 and make no count call.
C14_UnsupportedAfterSetSort ==
    ret.op \in CountAccessors /\ SortWasSet => Unsupported(ret)

\* C14 amended: after set_sort with a non-default sort order and a query, the
\* four accessors fail with UnsupportedInQueryVersion2 and make no count call
\* when the result list reports that sort order; when the query failed or was
\* answered with the version 1 list (name ascending, default flags) they
\* return Ok.
C14_UnsupportedWhenListSorted ==
    ret.op \in CountAccessors /\ SortWasSet =>
        /\ sort_type(eng) = Everything_GetSort(eng) => Unsupported(ret)
        /\ sort_type(eng) = SortType_default /\ request_flags(eng) = RequestFlags_default =>
               ret.tag = "Ok"

\* a count was refused on a list in the sort order set, the reply received
C14_Witness ==
    /\ ret.op \in CountAccessors /\ SortWasSet
    /\ eng.hasResults /\ sort_type(eng) = Everything_GetSort(eng) /\ Unsupported(ret)

\* C15: for every combination of the flags and the sort type of the result
\* list, the four count accessors return Ok exactly when the flags are
\* {FILE_NAME, PATH} and the sort is NAME_ASCENDING and UnsupportedInQueryVersion2
\* otherwise; num() and total() always return their number.
C15_CountsOnlyInVersion1 ==
    /\ ret.op \in CountAccessors =>
          IF eng.list.flags = EVERYTHING_REQUEST_FILE_NAME + EVERYTHING_REQUEST_PATH
             /\ eng.list.sort = EVERYTHING_SORT_NAME_ASCENDING
          THEN ret.tag = "Ok"
          ELSE ret.tag = "Err" /\ ret.val = "UnsupportedInQueryVersion2"
    /\ ret.op \in {"num", "total"} => ret.tag = "Ok"

\* a count is refused for the sort alone: the flags of the list are the default
C15_Witness ==
    /\ ret.op = "num_files" /\ ret.tag = "Err"
    /\ eng.list.flags = RequestFlags_default
    /\ eng.list.sort = EVERYTHING_SORT_DATE_RUN_DESCENDING

C17_TwoPhaseAssertHolds ==
    ret.op \in {"filepath", "full_path_name"} =>
        ~(ret.tag = "panic" /\ ret.val = "assert_eq")

\* the size the full path of the item of the latest call needs, terminator
\* included
Needed == Len(Entry(eng, ret.index).fullPath) + 1

\* C18: full_path_name(Some(max_len)) with max_len below the size needed returns
\* Ok with the full path cut off at the tail to fit max_len wide characters;
\* full_path_name(None) returns the whole path.
C18_TruncatedPathReturned ==
    ret.op = "full_path_name" /\ HasBit(eng.list.flags, ret.flag) =>
        /\ ret.tag = "Ok"
        /\ IF ret.arg /= <<>> /\ u32_lt(ret.arg[1], u32(Needed))
           THEN ret.val = SubSeq(Entry(eng, ret.index).fullPath, 1, usize(ret.arg[1]) - 1)
           ELSE ret.val = Entry(eng, ret.index).fullPath

\* C19: size() of a folder is Ok(0) whether the attributes were requested (the
\* engine reports 0) or not (it reports -1); size() of a file is the size the
\* engine reports.
C19_FolderSizeZero ==
    ret.op = "size" /\ HasBit(eng.list.flags, EVERYTHING_REQUEST_SIZE) =>
        /\ ret.tag = "Ok"
        /\ ret.val = IF Entry(eng, ret.index).folder THEN 0 ELSE Entry(eng, ret.index).size

\* size() of a folder whose attributes were not requested: the engine said -1
C19_Witness ==
    /\ ret.op = "size" /\ ret.tag = "Ok" /\ ret.val = 0
    /\ Entry(eng, ret.index).folder
    /\ ~HasBit(eng.list.flags, EVERYTHING_REQUEST_ATTRIBUTES)
    /\ Everything_GetResultSize(eng, ret.index) = Some(-1)

\* C20: get_major_version, get_minor_version, get_revision, get_build_number
\* and get_run_count return a non-zero engine value as Ok; a zero as Ok(0)
\* when the last error read right after is EVERYTHING_OK, as the Ipc error
\* when it is EVERYTHING_ERROR_IPC, and panic on any other last error.
C20_ZeroOrIpcError ==
    ret.op \in GlobalAccessors =>
        /\ ret.last_error = eng.lastError
        /\ ret.raw /= 0 => ret.tag = "Ok" /\ ret.val = ret.raw
        /\ ret.raw = 0 /\ ret.last_error = 0 => ret.tag = "Ok" /\ ret.val = 0
        /\ ret.raw = 0 /\ ret.last_error = 2 => ret.tag = "Err" /\ ret.val = "Ipc"
        /\ ret.raw = 0 /\ ret.last_error \notin {0, 2} => ret.tag = "panic"

\* get_revision read 0 with the last error EVERYTHING_ERROR_IPC
C20_Witness ==
    /\ ret.op = "get_revision" /\ ret.raw = 0 /\ ret.last_error = EVERYTHING_ERROR_IPC
    /\ ret.tag = "Err"

\* C21: get_run_count for a file whose run count is zero returns Ok(0) after
\* every sequence of preceding operations, also when an earlier call failed and
\* left its error code as the engine's last error (here: the error of a call
\* made while Everything was not running, with Everything running by now).
C21_ZeroRunCountIsOk ==
    /\ ret.op = "get_run_count" /\ ret.arg = <<TRUE>> /\ ret.raw = 0
    /\ ret.last_error \in {EVERYTHING_OK, EVERYTHING_ERROR_IPC}
    => ret.tag = "Ok" /\ ret.val = 0

\* C22: when window-class registration or window creation fails in the worker
\* thread of an asynchronous query, the whole process is aborted: no thread of
\* the program takes a step after the failure.
C22_WindowFailureAborts ==
    [][\A w \in Workers : wpc[w] /= "nowindow"]_vars

\* C23: after the completion message has been received, the worker first sets
\* the shared completion flag and wakes the suspended caller, and only then
\* destroys the reply window: a destroyed window means the flag is set.
C23_SignalThenDestroy ==
    \A w \in Workers : wpc[w] \in {"destroyed", "done"} => completed[w]

\* C23 as amended: the worker first destroys the reply window and only then
\* sets the completion flag and wakes the suspended caller: the step that sets
\* the flag starts with the completion message received and the window
\* destroyed, and it is the step that wakes the stored waker.
C23_DestroyThenSignal ==
    [][\A w \in Workers :
          completed'[w] /\ ~completed[w] =>
              /\ gotReply[w] /\ wpc[w] = "destroyed"
              /\ waker[w] /= None => woke'[w] /\ pc'[waker[w]] /= "pending"]_vars

\* a worker destroyed its window, set the flag and woke the suspended caller
C23_Witness ==
    \E w \in Workers : wpc[w] = "done" /\ completed[w] /\ woke[w] /\ gotReply[w]

\* C24: only a message whose reply identifier matches completes an asynchronous
\* query; a WM_COPYDATA message with another identifier that arrives at the
\* reply window of a waiting worker is passed to default handling: it neither
\* completes the query nor stops the worker from receiving the real completion.
C24_OtherMessagePassedThrough ==
    [][\A w \in Workers :
          /\ gotReply'[w] /\ ~gotReply[w] =>
                inflight /= <<>> /\ Head(inflight).id = CUSTOM_REPLY_ID
          /\ ( /\ wpc[w] = "posted"
               /\ inflight /= <<>>
               /\ inflight' = Tail(inflight)
               /\ ~Head(inflight).wait
               /\ Head(inflight).to = hwnd(w)
               /\ Head(inflight).id /= CUSTOM_REPLY_ID )
             => wpc'[w] = "posted" /\ completed'[w] = completed[w]]_vars

\* C30: the engine's global state is never reset under a running asynchronous
\* query: Everything_Reset, issued by dropping the searcher, is not executed
\* while a worker thread spawned by that searcher's query() is between setting
\* the reply id and signalling completion, also when the future was dropped
\* before it was Ready (stated for the first searcher: every worker is its own).
C30_NoResetUnderRunningQuery ==
    [][\A c \in Callers :
          sessions = 1 /\ pc[c] = "searcher" /\ pc'[c] = "guard" =>
              \A w \in Workers :
                  wpc[w] \notin {"idset", "winset", "posted", "notified", "destroyed"}]_vars

ResultReads == CountAccessors \cup FieldAccessors \cup {"size", "filepath", "full_path_name"}

\* C26: every read through an EverythingResults accessor or an EverythingItem
\* (also one that outlived its EverythingResults) happens inside the validity
\* window of the result set: no later query execution or reset has replaced the
\* result list in between.
C26_ReadInsideWindow ==
    [][ret' /= ret /\ ret'.op \in ResultReads => ~stale]_vars

\* C27: an EverythingGlobal operation is only ever made through the guard by
\* the caller holding it while no EverythingSearcher is live; the drop of the
\* searcher gives the same guard back to its owner with the mutex still held,
\* so the operations are available again without another lock() / try_lock().
C27_GuardBorrowedBySearcher ==
    [][/\ ret' /= ret /\ ret'.op \in GlobalAccessors =>
             /\ \A c \in Callers : pc[c] \notin SearcherStates
             /\ \E c \in Callers : pc[c] = "guard" /\ lockHolder = c /\ lockHolder' = c
       /\ \A c \in Callers :
             DropsSearcher(c) => lockHolder = c /\ lockHolder' = c /\ pc'[c] = "guard"]_vars

\* a searcher set the search text and queried under the guard at hand (no lock
\* was taken since), was dropped, and an EverythingGlobal operation returned Ok
C27_Witness ==
    \E c \in Callers :
        /\ pc[c] = "guard" /\ lockHolder = c
        /\ touched /= {} /\ nquery >= 1
        /\ ret.op \in GlobalAccessors /\ ret.tag = "Ok"

\* what an iterator yields when next() is called until it returns None
RECURSIVE Drain(_)
Drain(i) ==
    LET r == Iter_next(i) IN
    IF r.out.val = <<>> THEN <<>> ELSE <<r.out.val[1]>> \o Drain(r.it)

\* the visible results 0 .. n-1 as items, in order
VisibleItems(e) ==
    [k \in 1..Len(e.list.items) |-> [index |-> k - 1, request_flags |-> request_flags(e)]]

\* a call of op on the results or their iterator is made in this step
IterStep(op) ==
    /\ ret'.op = op
    /\ pc' = pc
    /\ \/ ret.op /= op
       \/ it' /= it
       \/ ret'.tag /= ret.tag
       \/ ret'.tag = "Ok" /\ (ret'.arg /= ret.arg \/ ret'.val /= ret.val)

\* C28: with n = num() visible results, iter() and into_iter() start at index 0
\* with length n and yield the items 0, 1, ..., n-1 in ascending order, each
\* once; next() returns None from then on and leaves the iterator as it is;
\* at(i) returns the item with index i when i < n and None when i >= n; every
\* item produced has an index below n.
C28_IterYieldsVisible ==
    [][LET n == Len(eng.list.items) IN
       /\ IterStep("iter") \/ (\E c \in Callers : pc[c] = "results" /\ pc'[c] = "items") =>
             /\ it' = Some(EverythingResults_iter(eng))
             /\ it'[1].next_index = u32(0) /\ it'[1].length = u32(n)
             /\ Drain(it'[1]) = VisibleItems(eng)
       /\ IterStep("next") =>
             /\ ret'.tag = "Ok"
             /\ IF u32_lt(it[1].next_index, u32(n))
                THEN /\ ret'.val = Some(VisibleItems(eng)[usize(it[1].next_index) + 1])
                     /\ usize(it'[1].next_index) = usize(it[1].next_index) + 1
                ELSE ret'.val = <<>> /\ it' = it
       /\ IterStep("at") =>
             /\ ret'.tag = "Ok"
             /\ IF u32_lt(ret'.arg[1], u32(n))
                THEN ret'.val = Some(VisibleItems(eng)[usize(ret'.arg[1]) + 1])
                ELSE ret'.val = <<>>
       /\ ret'.op \in {"next", "nth", "at"} /\ ret'.tag = "Ok" /\ ret'.val /= <<>> =>
             ret'.val[1].index < n]_vars

\* next() handed out the last visible item of a result set with two or more
\* results, and at() an item
C28_Witness ==
    /\ Len(eng.list.items) >= 2
    /\ it /= <<>>
    /\ it[1].next_index = u32(Len(eng.list.items))
    /\ ret.op = "next" /\ ret.tag = "Ok"
    /\ ret.val = Some([index |-> Len(eng.list.items) - 1, request_flags |-> request_flags(eng)])

\* k successive next() calls: the iterator they leave and what the last returned
RECURSIVE NextTimes(_, _)
NextTimes(i, k) == IF k = 1 THEN Iter_next(i) ELSE NextTimes(Iter_next(i).it, k - 1)

\* n + 1 successive next() calls, for any usize n: the calls after the first
\* None change nothing
NthByNext(i, n) ==
    LET rest == usize(i.length) - usize(i.next_index)
        small == n[1] = 0 /\ n[2][1] = 0 /\ n[2][2] <= rest
    IN  NextTimes(i, (IF small THEN n[2][2] ELSE rest) + 1)

\* C29: in every reachable iterator state next_index <= length, so size_hint
\* returns length - next_index without underflow; and for every n, nth(n) does
\* what n + 1 successive next() calls do: the item with index next_index + n
\* and the iterator past it when next_index + n < length, else None with the
\* iterator exhausted, also when next_index + n does not fit in 32 bits.
C29_NthLikeNexts ==
    [][/\ it /= <<>> => u32_le(it[1].next_index, it[1].length)
       /\ IterStep("size_hint") =>
             /\ ret'.tag = "Ok"
             /\ usize(ret'.val) = usize(it[1].length) - usize(it[1].next_index)
       /\ IterStep("nth") =>
             LET r == NthByNext(it[1], ret'.arg[1]) IN
             /\ ret'.tag = r.out.tag
             /\ ret'.val = r.out.val
             /\ it' = Some(r.it)]_vars

====
